---- MODULE Spec2Model ----
(***************************************************************************)
(* Shape-and-value model of src/ViT.py: PatchEmbedding, Attention, MLP,    *)
(* Block and VisionTransformer.  A tensor is modelled by its shape (a      *)
(* sequence of naturals) together with a small digest of its contents; the *)
(* torch operations are modelled by their shape rules (convolution output  *)
(* size, reshape element count, broadcasting, matmul inner dimensions) and *)
(* by their error conditions.                                              *)
(***************************************************************************)
EXTENDS Integers, Sequences, FiniteSets, TLC

VARIABLES attn, aframe, vit, vframe, memo

vars == <<attn, aframe, vit, vframe, memo>>

(* ------------------------------ bounds --------------------------------- *)
MaxImg == 3
MaxPatch == 2
MaxDim == 3
MaxHeads == 2
MaxDepth == 2
MaxBatch == 2
MaxTokens == 2

(* dropout probabilities in percent, digests modulo ValMod *)
DropPs == {0, 50}
ChanSet == {1, 3}
ClassSet == {1, 10}
DataTags == {0, 1}
ValMod == 5
MlpRatio == 4

NoObj == [status |-> "none"]
NoShape == <<>>

(* ------------------------- tensor-library rules ------------------------ *)
RECURSIVE Numel(_)
Numel(s) == IF s = <<>> THEN 1 ELSE Head(s) * Numel(Tail(s))

\* torch.nn.Conv2d output extent, padding 0 and dilation 1
\* variant: extent rounded up instead of down
ConvOutCeil(n, k, s) == ((n - 1) \div s) + 1

ConvOut(n, k, s) == ((n - (k - 1) - 1) \div s) + 1

\* reshape succeeds exactly when the element counts agree
ReshapeOk(src, tgt) == Numel(src) = Numel(tgt)

\* broadcasting of two shapes of the same rank
BroadcastOk(a, b) ==
    /\ Len(a) = Len(b)
    /\ \A i \in 1..Len(a) : a[i] = b[i] \/ a[i] = 1 \/ b[i] = 1

Broadcast(a, b) == [i \in 1..Len(a) |-> IF a[i] = 1 THEN b[i] ELSE a[i]]

\* digest of the result of a parametrised layer applied to digest v
Mix(v, tag) == (2 * v + tag + 1) % ValMod

\* nn.Dropout(p): identity unless training with p > 0; then a random mask,
\* survivors scaled by 1/(1-p)
\* variant: the mask is drawn in inference mode too
DropoutAlways(p, training, v) ==
    IF p = 0 THEN {v} ELSE {0, (2 * v + 1) % ValMod}

Dropout(p, training, v) ==
    IF (~training) \/ p = 0 THEN {v} ELSE {0, (2 * v + 1) % ValMod}

\* shape of a @ b for two tensors of equal rank >= 2
MatmulOk(a, b) ==
    /\ Len(a) = Len(b)
    /\ \A i \in 1..(Len(a) - 2) : a[i] = b[i]
    /\ a[Len(a)] = b[Len(b) - 1]

Matmul(a, b) == [i \in 1..Len(a) |-> IF i = Len(a) THEN b[Len(b)] ELSE a[i]]

(* ------------------------------ Attention ------------------------------ *)
\* Attention.__init__ ; 0 ** -0.5 raises ZeroDivisionError
\* variant: head_dim rounded up instead of down
AttentionInitCeil(dim, n_heads, attn_p, proj_p) ==
    LET head_dim == (dim + n_heads - 1) \div n_heads IN
    IF head_dim = 0
    THEN [status |-> "ctor_error", err |-> "ZeroDivisionError"]
    ELSE [status    |-> "built",
          n_heads   |-> n_heads,
          dim       |-> dim,
          head_dim  |-> head_dim,
          qkv       |-> [in_features |-> dim, out_features |-> dim * 3],
          attn_drop |-> attn_p,
          proj      |-> [in_features |-> dim, out_features |-> dim],
          proj_drop |-> proj_p]

AttentionInit(dim, n_heads, attn_p, proj_p) ==
    LET head_dim == dim \div n_heads IN
    IF head_dim = 0
    THEN [status |-> "ctor_error", err |-> "ZeroDivisionError"]
    ELSE [status    |-> "built",
          n_heads   |-> n_heads,
          dim       |-> dim,
          head_dim  |-> head_dim,
          qkv       |-> [in_features |-> dim, out_features |-> dim * 3],
          attn_drop |-> attn_p,
          proj      |-> [in_features |-> dim, out_features |-> dim],
          proj_drop |-> proj_p]

\* frame of one Attention.forward call on a tensor of shape x and digest v
AttnEnter(x, v) ==
    [pc |-> "check", input |-> x, x |-> x, qkv |-> NoShape, q |-> NoShape,
     k |-> NoShape, v |-> NoShape, attn |-> NoShape, weighted_avg |-> NoShape,
     val |-> v, ops |-> <<>>, err |-> "none", at |-> "none"]

NoFrame ==
    [pc |-> "idle", input |-> NoShape, x |-> NoShape, qkv |-> NoShape,
     q |-> NoShape, k |-> NoShape, v |-> NoShape, attn |-> NoShape,
     weighted_avg |-> NoShape, val |-> 0, ops |-> <<>>, err |-> "none",
     at |-> "none"]

\* an exception leaves the call; "at" is the statement that raised
Raise(f, e) == [f EXCEPT !.pc = "raised", !.err = e, !.at = f.pc]

Done(pc) == pc \in {"returned", "raised"}

\* lines 37-40 : unpack the shape, compare dim
\* variant: the dim comparison omitted
AttnCheckLate(a, tr, f) == {[f EXCEPT !.pc = "qkv"]}

AttnCheck(a, tr, f) ==
    IF f.x[3] # a.dim THEN {Raise(f, "ValueError")}
    ELSE {[f EXCEPT !.pc = "qkv"]}

\* line 42 : qkv = self.qkv(x)
AttnQkv(a, tr, f) ==
    IF f.x[3] # a.qkv.in_features THEN {Raise([f EXCEPT !.ops = Append(@, "qkv")], "RuntimeError")}
    ELSE {[f EXCEPT !.pc = "reshape",
                    !.qkv = <<f.x[1], f.x[2], a.qkv.out_features>>,
                    !.val = Mix(@, 1),
                    !.ops = Append(@, "qkv")]}

\* line 43 : qkv.reshape(n_samples, n_tokens, 3, n_heads, head_dim)
AttnReshape(a, tr, f) ==
    LET tgt == <<f.x[1], f.x[2], 3, a.n_heads, a.head_dim>> IN
    IF ~ReshapeOk(f.qkv, tgt) THEN {Raise(f, "RuntimeError")}
    ELSE {[f EXCEPT !.pc = "permute", !.qkv = tgt,
                    !.ops = Append(@, "reshape")]}

\* lines 44-45 : permute(2, 0, 3, 1, 4) and split into q, k, v
AttnPermute(a, tr, f) ==
    LET s == f.qkv
        p == <<s[3], s[1], s[4], s[2], s[5]>>
        h == <<p[2], p[3], p[4], p[5]>> IN
    {[f EXCEPT !.pc = "scores", !.qkv = p, !.q = h, !.k = h, !.v = h,
               !.ops = Append(@, "permute")]}

\* lines 46-47 : dp = (q @ k.transpose(-2, -1)) * scale
AttnScores(a, tr, f) ==
    LET k_t == <<f.k[1], f.k[2], f.k[4], f.k[3]>> IN
    IF ~MatmulOk(f.q, k_t) THEN {Raise(f, "RuntimeError")}
    ELSE {[f EXCEPT !.pc = "softmax", !.attn = Matmul(f.q, k_t),
                    !.val = Mix(@, 2), !.ops = Append(@, "scores")]}

\* line 48 : softmax over the last axis keeps the shape
AttnSoftmax(a, tr, f) ==
    {[f EXCEPT !.pc = "attn_drop", !.val = Mix(@, 3),
               !.ops = Append(@, "softmax")]}

\* line 49 : attn = self.attn_drop(attn)
AttnDrop(a, tr, f) ==
    {[f EXCEPT !.pc = "weighted", !.val = d,
               !.ops = Append(@, "attn_drop")] : d \in Dropout(a.attn_drop, tr, f.val)}

\* line 50 : weighted_avg = attn @ v
AttnWeighted(a, tr, f) ==
    IF ~MatmulOk(f.attn, f.v) THEN {Raise(f, "RuntimeError")}
    ELSE {[f EXCEPT !.pc = "merge", !.weighted_avg = Matmul(f.attn, f.v),
                    !.val = Mix(@, 4), !.ops = Append(@, "weighted")]}

\* line 51 : transpose(1, 2).reshape(n_samples, n_tokens, dim)
AttnMerge(a, tr, f) ==
    LET w   == f.weighted_avg
        t   == <<w[1], w[3], w[2], w[4]>>
        tgt == <<f.x[1], f.x[2], f.x[3]>> IN
    IF ~ReshapeOk(t, tgt) THEN {Raise(f, "RuntimeError")}
    ELSE {[f EXCEPT !.pc = "proj", !.weighted_avg = tgt,
                    !.ops = Append(@, "merge")]}

\* line 52 : x = self.proj(weighted_avg)
AttnProj(a, tr, f) ==
    LET w == f.weighted_avg IN
    IF w[3] # a.proj.in_features THEN {Raise(f, "RuntimeError")}
    ELSE {[f EXCEPT !.pc = "proj_drop",
                    !.x = <<w[1], w[2], a.proj.out_features>>,
                    !.val = Mix(@, 5), !.ops = Append(@, "proj")]}

\* lines 53-54 : x = self.proj_drop(x); return x
AttnProjDrop(a, tr, f) ==
    {[f EXCEPT !.pc = "returned", !.val = d,
               !.ops = Append(@, "proj_drop")] : d \in Dropout(a.proj_drop, tr, f.val)}

AttnStep(a, tr, f) ==
    CASE f.pc = "check"     -> AttnCheck(a, tr, f)
      [] f.pc = "qkv"       -> AttnQkv(a, tr, f)
      [] f.pc = "reshape"   -> AttnReshape(a, tr, f)
      [] f.pc = "permute"   -> AttnPermute(a, tr, f)
      [] f.pc = "scores"    -> AttnScores(a, tr, f)
      [] f.pc = "softmax"   -> AttnSoftmax(a, tr, f)
      [] f.pc = "attn_drop" -> AttnDrop(a, tr, f)
      [] f.pc = "weighted"  -> AttnWeighted(a, tr, f)
      [] f.pc = "merge"     -> AttnMerge(a, tr, f)
      [] f.pc = "proj"      -> AttnProj(a, tr, f)
      [] f.pc = "proj_drop" -> AttnProjDrop(a, tr, f)
      [] OTHER              -> {}

\* Attention.forward run to completion: the set of possible final frames
RECURSIVE AttnRun(_, _, _)
AttnRun(a, tr, f) ==
    IF Done(f.pc) THEN {f}
    ELSE UNION {AttnRun(a, tr, g) : g \in AttnStep(a, tr, f)}

(* --------------------------------- MLP --------------------------------- *)
\* MLP.__init__ ; "a or b" takes b when a is None or 0
MLPInit(in_features, hidden_features, out_features, p) ==
    LET out == IF out_features = 0 THEN in_features ELSE out_features
        hid == IF hidden_features = 0 THEN in_features ELSE hidden_features IN
    [fc1  |-> [in_features |-> in_features, out_features |-> hid],
     fc2  |-> [in_features |-> hid, out_features |-> out],
     drop |-> p]

\* result of a sub-module call
Ret(x, v) == [pc |-> "returned", x |-> x, val |-> v, err |-> "none"]
Err(e) == [pc |-> "raised", x |-> NoShape, val |-> 0, err |-> e]

\* MLP.forward, lines 66-72
MLPForward(m, tr, x, v) ==
    IF x[Len(x)] # m.fc1.in_features THEN {Err("RuntimeError")}
    ELSE LET h == [x EXCEPT ![Len(x)] = m.fc1.out_features] IN
         IF h[Len(h)] # m.fc2.in_features THEN {Err("RuntimeError")}
         ELSE {Ret([h EXCEPT ![Len(h)] = m.fc2.out_features], d2) :
                  d2 \in UNION {Dropout(m.drop, tr, Mix(d1, 8)) :
                                  d1 \in Dropout(m.drop, tr, Mix(Mix(v, 6), 7))}}

(* -------------------------------- Block -------------------------------- *)
\* Block.__init__, lines 75-81
\* variant: p handed on to the MLP
BlockInitForwardP(dim, n_heads, mlp_ratio, p, attn_p, proj_p) ==
    [norm1 |-> dim,
     attn  |-> AttentionInit(dim, n_heads, attn_p, proj_p),
     norm2 |-> dim,
     mlp   |-> MLPInit(dim, dim * mlp_ratio, dim, p)]

BlockInit(dim, n_heads, mlp_ratio, p, attn_p, proj_p) ==
    [norm1 |-> dim,
     attn  |-> AttentionInit(dim, n_heads, attn_p, proj_p),
     norm2 |-> dim,
     mlp   |-> MLPInit(dim, dim * mlp_ratio, dim, 0)]

\* nn.LayerNorm(dim) applied to a tensor of shape x
LayerNormOk(dim, x) == x[Len(x)] = dim

\* Block.forward, lines 83-86
BlockForward(b, tr, x, v) ==
    IF ~LayerNormOk(b.norm1, x) THEN {Err("RuntimeError")}
    ELSE UNION {
        IF a.pc = "raised" THEN {Err(a.err)}
        ELSE IF ~BroadcastOk(x, a.x) THEN {Err("RuntimeError")}
        ELSE LET x1 == Broadcast(x, a.x)
                 v1 == (v + a.val) % ValMod IN
             IF ~LayerNormOk(b.norm2, x1) THEN {Err("RuntimeError")}
             ELSE UNION {
                 IF m.pc = "raised" THEN {Err(m.err)}
                 ELSE IF ~BroadcastOk(x1, m.x) THEN {Err("RuntimeError")}
                 ELSE {Ret(Broadcast(x1, m.x), (v1 + m.val) % ValMod)}
                 : m \in MLPForward(b.mlp, tr, x1, Mix(v1, 10))}
        : a \in AttnRun(b.attn, tr, AttnEnter(x, Mix(v, 9)))}

(* ---------------------------- PatchEmbedding --------------------------- *)
\* PatchEmbedding.__init__, lines 6-14
PatchEmbeddingInit(img_size, patch_size, in_channels, embed_dim) ==
    [img_size   |-> img_size,
     patch_size |-> patch_size,
     n_patches  |-> (img_size \div patch_size) * (img_size \div patch_size),
     projection |-> [in_channels |-> in_channels, out_channels |-> embed_dim,
                     kernel_size |-> patch_size, stride |-> patch_size]]

\* nn.Conv2d applied to a tensor of shape (B, C, H, W)
Conv2dOk(c, x) ==
    /\ x[2] = c.in_channels
    /\ x[3] >= c.kernel_size
    /\ x[4] >= c.kernel_size

Conv2d(c, x) ==
    <<x[1], c.out_channels, ConvOut(x[3], c.kernel_size, c.stride),
      ConvOut(x[4], c.kernel_size, c.stride)>>

\* PatchEmbedding.forward, lines 16-20
PatchEmbeddingForward(pe, x, v) ==
    IF ~Conv2dOk(pe.projection, x) THEN Err("RuntimeError")
    ELSE LET c  == Conv2d(pe.projection, x)
             fl == <<c[1], c[2], c[3] * c[4]>>
             t  == <<fl[1], fl[3], fl[2]>> IN
         Ret(t, Mix(v, 11))

(* -------------------------- VisionTransformer -------------------------- *)
\* VisionTransformer.__init__, lines 89-97 ; fails when a Block's Attention does
VisionTransformerInit(a) ==
    LET blocks == [i \in 1..a.depth |->
                      BlockInit(a.embed_dim, a.n_heads, MlpRatio,
                                a.p, a.attn_p, a.proj_p)] IN
    IF \E i \in 1..a.depth : blocks[i].attn.status = "ctor_error"
    THEN [status |-> "ctor_error", args |-> a, err |-> "ZeroDivisionError"]
    ELSE [status      |-> "built",
          args        |-> a,
          training    |-> TRUE,
          patch_embed |-> PatchEmbeddingInit(a.img_size, a.patch_size,
                                             a.in_channels, a.embed_dim),
          cls_token   |-> <<1, 1, a.embed_dim>>,
          pos_embed   |-> <<1, (a.img_size \div a.patch_size)
                                 * (a.img_size \div a.patch_size) + 1,
                            a.embed_dim>>,
          pos_drop    |-> a.p,
          blocks      |-> blocks,
          norm        |-> a.embed_dim,
          head        |-> [in_features |-> a.embed_dim,
                           out_features |-> a.n_classes]]

\* frame of one VisionTransformer.forward call
VitEnter(input, tr) ==
    [pc |-> "patch_embed", input |-> input, training |-> tr,
     x |-> input.shape, val |-> input.data, i |-> 0, err |-> "none",
     at |-> "none"]

VitIdle ==
    [pc |-> "idle", input |-> [shape |-> NoShape, data |-> 0],
     training |-> TRUE, x |-> NoShape, val |-> 0, i |-> 0, err |-> "none",
     at |-> "none"]

VRaise(f, e) ==
    [f EXCEPT !.pc = "raised", !.err = e, !.at = f.pc, !.x = NoShape, !.val = 0]

\* lines 100-101 : n_samples = x.shape[0]; x = self.patch_embed(x)
VitPatchEmbed(m, f) ==
    LET r == PatchEmbeddingForward(m.patch_embed, f.x, f.val) IN
    IF r.pc = "raised" THEN {VRaise(f, r.err)}
    ELSE {[f EXCEPT !.pc = "cat", !.x = r.x, !.val = r.val]}

\* lines 102-103 : expand the cls token to the batch, concatenate on axis 1
\* variant: the cls token is not prepended
VitCatNoCls(m, f) ==
    LET cls_token == <<f.input.shape[1], m.cls_token[2], m.cls_token[3]>> IN
    IF cls_token[1] # f.x[1] \/ cls_token[3] # f.x[3]
    THEN {VRaise(f, "RuntimeError")}
    ELSE {[f EXCEPT !.pc = "pos_add", !.val = Mix(@, 12)]}

VitCat(m, f) ==
    LET cls_token == <<f.input.shape[1], m.cls_token[2], m.cls_token[3]>> IN
    IF cls_token[1] # f.x[1] \/ cls_token[3] # f.x[3]
    THEN {VRaise(f, "RuntimeError")}
    ELSE {[f EXCEPT !.pc = "pos_add",
                    !.x = <<f.x[1], cls_token[2] + f.x[2], f.x[3]>>,
                    !.val = Mix(@, 12)]}

\* line 104 : x = x + self.pos_embed
VitPosAdd(m, f) ==
    IF ~BroadcastOk(f.x, m.pos_embed) THEN {VRaise(f, "RuntimeError")}
    ELSE {[f EXCEPT !.pc = "pos_drop", !.x = Broadcast(f.x, m.pos_embed),
                    !.val = Mix(@, 13)]}

\* line 105 : x = self.pos_drop(x)
VitPosDrop(m, f) ==
    {[f EXCEPT !.pc = "blocks", !.i = 1, !.val = d] :
        d \in Dropout(m.pos_drop, f.training, f.val)}

\* lines 106-107 : one iteration of the loop over self.blocks
VitBlock(m, f) ==
    {IF r.pc = "raised" THEN VRaise(f, r.err)
     ELSE [f EXCEPT !.i = @ + 1, !.x = r.x, !.val = r.val] :
        r \in BlockForward(m.blocks[f.i], f.training, f.x, f.val)}

\* line 108 : x = self.norm(x), once the loop is exhausted
VitNorm(m, f) ==
    IF ~LayerNormOk(m.norm, f.x) THEN {VRaise(f, "RuntimeError")}
    ELSE {[f EXCEPT !.pc = "select", !.val = Mix(@, 14)]}

\* line 109 : x = x[:, 0]
\* variant: x[0] instead of x[:, 0]
VitSelectFirstSample(m, f) ==
    IF f.x[1] < 1 THEN {VRaise(f, "IndexError")}
    ELSE {[f EXCEPT !.pc = "head", !.x = <<f.x[2], f.x[3]>>]}

VitSelect(m, f) ==
    IF f.x[2] < 1 THEN {VRaise(f, "IndexError")}
    ELSE {[f EXCEPT !.pc = "head", !.x = <<f.x[1], f.x[3]>>]}

\* lines 110-112 : x = self.head(x); return x
VitHead(m, f) ==
    IF f.x[2] # m.head.in_features THEN {VRaise(f, "RuntimeError")}
    ELSE {[f EXCEPT !.pc = "returned", !.x = <<f.x[1], m.head.out_features>>,
                    !.val = Mix(@, 15)]}

\* VisionTransformer.forward, lines 99-112 : the statement at f.pc
VitStep(m, f) ==
    CASE f.pc = "patch_embed" -> VitPatchEmbed(m, f)
      [] f.pc = "cat"         -> VitCat(m, f)
      [] f.pc = "pos_add"     -> VitPosAdd(m, f)
      [] f.pc = "pos_drop"    -> VitPosDrop(m, f)
      [] f.pc = "blocks"      -> IF f.i <= Len(m.blocks) THEN VitBlock(m, f)
                                 ELSE VitNorm(m, f)
      [] f.pc = "select"      -> VitSelect(m, f)
      [] f.pc = "head"        -> VitHead(m, f)
      [] OTHER                -> {}

\* what the caller sees of a finished call
Outcome(f) == [pc |-> f.pc, x |-> f.x, val |-> f.val, err |-> f.err]

NoMemo == [input |-> [shape |-> NoShape, data |-> 0], outcome |-> Outcome(VitIdle)]

(* ------------------------------ inputs --------------------------------- *)
VitArgs ==
    [img_size : 1..MaxImg, patch_size : 1..MaxPatch, in_channels : ChanSet,
     n_classes : ClassSet, embed_dim : 1..MaxDim, depth : 0..MaxDepth,
     n_heads : 1..MaxHeads, p : {0}, attn_p : {0}, proj_p : {0}]

Images ==
    [shape : {<<b, c, h, w>> : b \in 1..MaxBatch, c \in ChanSet,
                               h \in 1..MaxImg, w \in 1..MaxImg},
     data : {0}]

\* one geometry, every combination of the three dropout probabilities
DropArgs ==
    [img_size : {2}, patch_size : {1, 2}, in_channels : {3},
     n_classes : {10}, embed_dim : {2, 3}, depth : 0..MaxDepth,
     n_heads : {1, 2}, p : DropPs, attn_p : DropPs, proj_p : DropPs]

DropImages ==
    [shape : {<<1, 3, h, h>> : h \in {1, 2}}, data : DataTags]

Sequences3 ==
    {<<b, t, d>> : b \in 0..MaxBatch, t \in 0..MaxTokens, d \in 1..MaxDim}

(* ------------------- actions on a VisionTransformer -------------------- *)
\* model = VisionTransformer(...)
Construct(Args) ==
    /\ vit = NoObj
    /\ \E a \in Args : vit' = VisionTransformerInit(a)
    /\ UNCHANGED <<attn, aframe, vframe, memo>>

\* model.train() / model.eval() between calls
SetMode ==
    /\ vit.status = "built"
    /\ vframe.pc = "idle" \/ Done(vframe.pc)
    /\ vit' = [vit EXCEPT !.training = ~@]
    /\ UNCHANGED <<attn, aframe, vframe, memo>>

\* model(x) : enter forward; the previous inference result may be kept by the caller
Call(Imgs) ==
    /\ vit.status = "built"
    /\ vframe.pc = "idle" \/ Done(vframe.pc)
    /\ \E input \in Imgs : vframe' = VitEnter(input, vit.training)
    /\ \/ memo' = memo
       \/ /\ Done(vframe.pc)
          /\ ~vframe.training
          /\ memo' = [input |-> vframe.input, outcome |-> Outcome(vframe)]
    /\ UNCHANGED <<attn, aframe, vit>>

VitStepTo(S) ==
    /\ \E g \in S : vframe' = g
    /\ UNCHANGED <<attn, aframe, vit, memo>>

FwdPatchEmbed == vframe.pc = "patch_embed" /\ VitStepTo(VitStep(vit, vframe))
FwdCat == vframe.pc = "cat" /\ VitStepTo(VitStep(vit, vframe))
FwdPosAdd == vframe.pc = "pos_add" /\ VitStepTo(VitStep(vit, vframe))
FwdPosDrop == vframe.pc = "pos_drop" /\ VitStepTo(VitStep(vit, vframe))
FwdBlock ==
    /\ vframe.pc = "blocks" /\ vframe.i <= Len(vit.blocks)
    /\ VitStepTo(VitStep(vit, vframe))
FwdNorm ==
    /\ vframe.pc = "blocks" /\ vframe.i > Len(vit.blocks)
    /\ VitStepTo(VitStep(vit, vframe))
FwdSelect == vframe.pc = "select" /\ VitStepTo(VitStep(vit, vframe))
FwdHead == vframe.pc = "head" /\ VitStepTo(VitStep(vit, vframe))

Forward ==
    \/ FwdPatchEmbed \/ FwdCat \/ FwdPosAdd \/ FwdPosDrop
    \/ FwdBlock \/ FwdNorm \/ FwdSelect \/ FwdHead

(* ------------------------ actions on an Attention ---------------------- *)
AttnArgs ==
    [dim : 1..MaxDim, n_heads : 1..MaxHeads, attn_p : DropPs, proj_p : DropPs]

\* attn = Attention(dim, n_heads, ...)
AConstruct ==
    /\ attn = NoObj
    /\ \E a \in AttnArgs :
          attn' = [obj |-> AttentionInit(a.dim, a.n_heads, a.attn_p, a.proj_p),
                   status |-> AttentionInit(a.dim, a.n_heads, a.attn_p, a.proj_p).status,
                   args |-> a, training |-> TRUE]
    /\ UNCHANGED <<aframe, vit, vframe, memo>>

ASetMode ==
    /\ attn.status = "built"
    /\ aframe.pc = "idle" \/ Done(aframe.pc)
    /\ attn' = [attn EXCEPT !.training = ~@]
    /\ UNCHANGED <<aframe, vit, vframe, memo>>

\* attn(x) on a rank-3 tensor
ACall ==
    /\ attn.status = "built"
    /\ aframe.pc = "idle" \/ Done(aframe.pc)
    /\ \E x \in Sequences3, d \in DataTags : aframe' = AttnEnter(x, d)
    /\ UNCHANGED <<attn, vit, vframe, memo>>

AStepTo(S) ==
    /\ \E g \in S : aframe' = g
    /\ UNCHANGED <<attn, vit, vframe, memo>>

ACheck == aframe.pc = "check" /\ AStepTo(AttnStep(attn.obj, attn.training, aframe))
AQkv == aframe.pc = "qkv" /\ AStepTo(AttnStep(attn.obj, attn.training, aframe))
AReshape == aframe.pc = "reshape" /\ AStepTo(AttnStep(attn.obj, attn.training, aframe))
APermute == aframe.pc = "permute" /\ AStepTo(AttnStep(attn.obj, attn.training, aframe))
AScores == aframe.pc = "scores" /\ AStepTo(AttnStep(attn.obj, attn.training, aframe))
ASoftmax == aframe.pc = "softmax" /\ AStepTo(AttnStep(attn.obj, attn.training, aframe))
AAttnDrop == aframe.pc = "attn_drop" /\ AStepTo(AttnStep(attn.obj, attn.training, aframe))
AWeighted == aframe.pc = "weighted" /\ AStepTo(AttnStep(attn.obj, attn.training, aframe))
AMerge == aframe.pc = "merge" /\ AStepTo(AttnStep(attn.obj, attn.training, aframe))
AProj == aframe.pc = "proj" /\ AStepTo(AttnStep(attn.obj, attn.training, aframe))
AProjDrop == aframe.pc = "proj_drop" /\ AStepTo(AttnStep(attn.obj, attn.training, aframe))

AForward ==
    \/ ACheck \/ AQkv \/ AReshape \/ APermute \/ AScores \/ ASoftmax
    \/ AAttnDrop \/ AWeighted \/ AMerge \/ AProj \/ AProjDrop

(* --------------------------- specifications ---------------------------- *)
Init ==
    /\ attn = NoObj
    /\ aframe = NoFrame
    /\ vit = NoObj
    /\ vframe = VitIdle
    /\ memo = NoMemo

NextViT == Construct(VitArgs) \/ Call(Images) \/ Forward
SpecViT == Init /\ [][NextViT]_vars

NextDrop == Construct(DropArgs) \/ SetMode \/ Call(DropImages) \/ Forward
SpecDrop == Init /\ [][NextDrop]_vars

NextAttn == AConstruct \/ ASetMode \/ ACall \/ AForward
SpecAttn == Init /\ [][NextAttn]_vars

(* ------------------------------- claims -------------------------------- *)
Args == vit.args
InCall == vframe.pc # "idle"
Running == vframe.pc # "idle" /\ ~Done(vframe.pc)
InShape == vframe.input.shape

\* the configuration C1 calls valid
ValidConfig ==
    /\ Args.img_size % Args.patch_size = 0
    /\ Args.embed_dim % Args.n_heads = 0
    /\ Args.depth >= 0
    /\ Args.n_classes >= 1

\* the current call's input has the configured shape (B, in_channels, img_size, img_size)
ContractInput ==
    /\ vit.status = "built"
    /\ InCall
    /\ InShape[1] >= 1
    /\ InShape[2] = Args.in_channels
    /\ InShape[3] = Args.img_size
    /\ InShape[4] = Args.img_size

\* C1: with a valid configuration and an input of shape
\* (B, in_channels, img_size, img_size), B >= 1, forward never raises, every
\* statement it reaches can execute, and the value it returns has shape
\* exactly (B, n_classes).
C1_ForwardShape ==
    (ContractInput /\ ValidConfig) =>
        /\ vframe.pc # "raised"
        /\ Running => VitStep(vit, vframe) # {}
        /\ vframe.pc = "returned" => vframe.x = <<InShape[1], Args.n_classes>>

C1_Witness ==
    /\ ContractInput /\ ValidConfig
    /\ vframe.pc = "returned"
    /\ InShape[1] = 2 /\ Args.depth = 2 /\ Args.n_heads = 2
    /\ Args.img_size = 2 /\ Args.patch_size = 1
    /\ vframe.x = <<2, Args.n_classes>>

TokenShape == <<InShape[1], vit.patch_embed.n_patches + 1, Args.embed_dim>>

\* C2: on an input of the configured shape the sequence length after the cls
\* token is concatenated is n_patches + 1, and after the positional addition,
\* after positional dropout, and before and after every encoder block up to
\* the final normalisation the shape is (B, n_patches + 1, embed_dim); past
\* the positional addition this holds for every input once img_size >=
\* patch_size.
C2_TokenLength ==
    /\ (ContractInput /\ vframe.pc \in {"pos_add", "pos_drop", "blocks", "select"})
          => vframe.x = TokenShape
    /\ (vit.status = "built" /\ Args.img_size >= Args.patch_size
          /\ vframe.pc \in {"pos_drop", "blocks", "select"})
          => vframe.x = TokenShape

C2_Witness ==
    /\ ContractInput
    /\ vframe.pc = "blocks" /\ vframe.i = 2 /\ Args.depth = 2
    /\ vit.patch_embed.n_patches = 4
    /\ vframe.x = <<InShape[1], 5, Args.embed_dim>>

\* C3: for img_size >= patch_size >= 1, multiple of patch_size or not,
\* PatchEmbedding.forward on (B, in_channels, img_size, img_size) does not
\* raise and returns a sequence of length n_patches = (img_size //
\* patch_size)^2, the positional-embedding length minus one.
C3_PatchCount ==
    (ContractInput /\ Args.img_size >= Args.patch_size) =>
        /\ ~(vframe.pc = "raised" /\ vframe.at = "patch_embed")
        /\ vframe.pc = "cat" =>
              /\ vframe.x[2] = vit.patch_embed.n_patches
              /\ vframe.x[2] = (Args.img_size \div Args.patch_size)
                                 * (Args.img_size \div Args.patch_size)
              /\ vframe.x[2] = vit.pos_embed[2] - 1
              /\ vframe.x = <<InShape[1], vframe.x[2], Args.embed_dim>>

C3_Witness ==
    /\ ContractInput
    /\ Args.img_size = 3 /\ Args.patch_size = 2
    /\ vframe.pc = "cat"
    /\ vframe.x[2] = 1

\* C5: construction with embed_dim not divisible by n_heads raises.
C5_ConstructionRejects ==
    (vit.status # "none" /\ Args.embed_dim % Args.n_heads # 0)
        => vit.status = "ctor_error"

\* C6: forward on an image whose height or width differs from img_size
\* (H, W >= patch_size) never returns logits.
C6_MismatchAborts ==
    (/\ vit.status = "built" /\ InCall
     /\ InShape[3] >= Args.patch_size /\ InShape[4] >= Args.patch_size
     /\ (InShape[3] # Args.img_size \/ InShape[4] # Args.img_size))
        => vframe.pc # "returned"

\* C7: a step of forward (entering it, executing a statement, returning or
\* raising) leaves the model object unchanged, and an inference-mode call
\* ends with the same outcome as any earlier inference-mode call on the same
\* input, however many calls were made in between.
SameAsRemembered ==
    (/\ Done(vframe.pc) /\ ~vframe.training
     /\ memo # NoMemo /\ memo.input = vframe.input)
        => Outcome(vframe) = memo.outcome

C7_ForwardIsPure ==
    [][ /\ (vframe' # vframe) => (vit' = vit)
        /\ SameAsRemembered' ]_vars

C7_Witness ==
    /\ vframe.pc = "returned" /\ ~vframe.training
    /\ memo # NoMemo /\ memo.input = vframe.input
    /\ memo.outcome.pc = "returned"
    /\ Args.depth >= 1
    /\ Args.p = 50 /\ Args.attn_p = 50 /\ Args.proj_p = 50

\* C10: p reaches only the dropout after the positional addition, attn_p only
\* the attention-weight dropout of every block, proj_p only the
\* post-projection dropout of every block; the dropout of every block's MLP
\* has probability 0 and is the identity in training and in inference.
C10_DropoutRouting ==
    vit.status = "built" =>
        /\ vit.pos_drop = Args.p
        /\ \A i \in 1..Len(vit.blocks) :
              /\ vit.blocks[i].attn.attn_drop = Args.attn_p
              /\ vit.blocks[i].attn.proj_drop = Args.proj_p
              /\ vit.blocks[i].mlp.drop = 0
              /\ \A tr \in BOOLEAN, v \in 0..(ValMod - 1) :
                    Dropout(vit.blocks[i].mlp.drop, tr, v) = {v}

C10_Witness ==
    /\ vit.status = "built"
    /\ Args.p = 50 /\ Args.attn_p = 0 /\ Args.proj_p = 50
    /\ Args.depth = 2
    /\ vframe.training /\ vframe.pc = "blocks" /\ vframe.i = 3

AArgs == attn.args
AIn == aframe.input

\* C4: Attention.forward on a rank-3 input whose last dimension differs from
\* the constructed dim raises ValueError at the check, before the qkv
\* projection or any other computation, and never returns.
C4_DimMismatchRaises ==
    (attn.status = "built" /\ aframe.pc # "idle" /\ AIn[3] # attn.obj.dim) =>
        /\ aframe.pc \in {"check", "raised"}
        /\ aframe.ops = <<>>
        /\ aframe.pc = "raised" =>
              (aframe.err = "ValueError" /\ aframe.at = "check")

C4_Witness ==
    /\ attn.status = "built"
    /\ aframe.pc = "raised" /\ aframe.err = "ValueError"
    /\ AIn[1] >= 1 /\ AIn[2] >= 1
    /\ AIn[3] # attn.obj.dim
    /\ aframe.ops = <<>>

\* C9: an Attention constructed with n_heads <= dim and dim not divisible by
\* n_heads fails every forward on a non-empty (B, T, dim) input at the qkv
\* reshape, since 3 * n_heads * head_dim # 3 * dim, and never returns; with
\* n_heads > dim construction itself fails.
C9_IndivisibleFails ==
    /\ (attn.status # "none" /\ AArgs.n_heads > AArgs.dim)
          => attn.status = "ctor_error"
    /\ (attn.status # "none" /\ AArgs.n_heads <= AArgs.dim)
          => attn.status = "built"
    /\ (/\ attn.status = "built" /\ AArgs.dim % AArgs.n_heads # 0
        /\ aframe.pc # "idle"
        /\ AIn[1] >= 1 /\ AIn[2] >= 1 /\ AIn[3] = AArgs.dim)
          => /\ 3 * attn.obj.n_heads * attn.obj.head_dim # 3 * attn.obj.dim
             /\ aframe.pc \in {"check", "qkv", "reshape", "raised"}
             /\ aframe.pc = "raised" =>
                   (aframe.at = "reshape" /\ aframe.err = "RuntimeError")

C9_Witness ==
    /\ attn.status = "built"
    /\ AArgs.dim = 3 /\ AArgs.n_heads = 2
    /\ AIn = <<2, 2, 3>>
    /\ aframe.pc = "raised" /\ aframe.at = "reshape"

====
